---- MODULE Spec2Model ----
\* thedude: futures, tasks resolving futures in their argument tree, task lists.
\* A model of thedude.js (src/unnamed/part_005, lines 583-1058).
\*
\* JavaScript is single-threaded: every action below is one top-level API call
\* (or one delivery of an asynchronous completion) run to its end, with every
\* callback it invokes synchronously included.  Callbacks that call back into
\* the API (re-entrancy) are evaluated inside the action that triggers them.
EXTENDS Integers, Sequences, FiniteSets, TLC

\* ------------------------------------------------------------------ bounds
MaxFutures == 2     \* futures that exist
MaxTasks == 1       \* tasks that may be created
MaxCallbacks == 3   \* addCallback calls made by the client on one future
MaxListTasks == 2   \* tasks that may exist once a task list is used
MaxListRuns == 2    \* calls of TaskList.run
MaxHeap == 5        \* objects and arrays of notes in the memory
MaxWaiters == 2     \* tasks that may wait for the same future
MaxArrays == 3      \* arrays of tasks made by the list (at creation, by asArray, by clear)

Futures == 1..MaxFutures
Values == {"v1", "v2"}          \* values given to Future.set
ValueOf(f) == IF f % 2 = 1 THEN "v1" ELSE "v2"   \* the value a task's future is given
OtherValue(v) == IF v = "v1" THEN "v2" ELSE "v1"

\* Task statuses (part_005:866-869).
PROCRASTINATING == "procrastinating"
RUNNING == "running"
CANCELED == "canceled"
DONE == "done"

NoExc == "none"
AlreadyDone == "Error: future is already done"
TypeError == "TypeError: this._call is not a function"
CancelTwice == "Error: cannot cancel a task twice"
RunTwice == "cannot run a task twice"
RunCanceled == "cannot run a canceled task"
FuncError == "Error: raised by the function"
CbError == "Error: raised by the callback"

\* ------------------------------------------------------------------ state
VARIABLES
    fut,      \* [Futures -> [done, call, callback]]: the Future objects
    tasks,    \* sequence of Task objects, in creation order
    counter,  \* the global task identifier counter
    cbLog,    \* history: per future, the client callbacks invoked and the sets refused, in order
    tlog,     \* history: per task, the invocations of its function and of run callbacks
    arrays,   \* the arrays of tasks made by task lists (TaskList._tasks refers to one)
    list,     \* the TaskList object
    runs,     \* per call of TaskList.run: its closure (tasks, results) and, as history,
              \* what its two callbacks received
    reg,      \* history: per future, the callbacks the client gave to addCallback while
              \* the future was pending, in the order of the calls
    last,     \* history: the calls of set, addCallback, run and cancel made by the
              \* last action with what the client saw of them, the top-level one first
    heap,     \* the objects and arrays of notes in the memory, by address
    client    \* what the client holds: the objects it gave to note(), the objects
              \* info() returned, the arrays asArray() returned; and, as history,
              \* the tasks whose run() it called and was accepted, in the order of the calls

vars == <<fut, tasks, counter, arrays, list, runs, cbLog, tlog, reg, last, heap, client>>

\* ------------------------------------------------------------------ callbacks
\* A callback registered on a future is either a client callback (by name) or
\* the closure searchFutures registers for a task and a position of its
\* argument tree.
UserCb(name) == [kind |-> "user", name |-> name, task |-> 0, path |-> <<>>]
TaskCb(t, p) == [kind |-> "task", name |-> "", task |-> t, path |-> p]

\* Client callbacks.  All of them record their invocation and return normally:
\*   a, b   do nothing else;
\*   readd  calls f.addCallback(late) on its own future, inside try/catch;
\*   reset  calls f.set(other value) on its own future, inside try/catch;
\*   late   is what readd registers; it does nothing else.
CallbackNames == {"a", "b", "readd", "reset"}
LateName == "late"
\* What the client records of a future: the callbacks invoked with the value
\* each received and, under the name "set-refused", the calls of set that raised.
RefusedName == "set-refused"
Refused(v) == [cb |-> RefusedName, val |-> v]

\* One API call as the client observes it: the operation, the future or task
\* it is called on, its arguments (cb, v), the exception it raised, the value
\* it returned, and around it: the done or called flag and the task status
\* before the call, how many times the callback given (addCallback) or the
\* task's function (run) was invoked during the call, and whether the call
\* left the program state unchanged.
CallRec(op, f, t, cb, v, doneBefore, before, exc, ret, delivered, unchanged) ==
    [op |-> op, f |-> f, t |-> t, cb |-> cb, v |-> v, doneBefore |-> doneBefore,
     before |-> before, exc |-> exc, ret |-> ret, delivered |-> delivered,
     unchanged |-> unchanged]

Count(log, name) == Cardinality({i \in 1..Len(log) : log[i].cb = name})
\* For a call on a future, "before" tells whether a set was refused before it.
RefusedBefore(log) == IF Count(log, RefusedName) > 0 THEN "refused" ELSE ""

\* The program state an operation works on (the history of nested calls rides along).
World ==
    [fut |-> fut, tasks |-> tasks, arrays |-> arrays, runs |-> runs,
     cbLog |-> cbLog, tlog |-> tlog, nested |-> <<>>]
Ok(w) == [w |-> w, exc |-> NoExc]
Throw(w, e) == [w |-> w, exc |-> e]
Core(w) == [fut |-> w.fut, tasks |-> w.tasks]

RECURSIVE FutureSet(_, _, _), FutureAddCallback(_, _, _), InvokeCallback(_, _, _, _)
RECURSIVE Dispatch(_, _, _, _, _), DispatchBackwards(_, _, _, _, _)
RECURSIVE FuturePaths(_), GetAt(_, _), ReplaceAt(_, _, _), SearchFutures(_, _, _, _)

\* ------------------------------------------------------------------ argument trees
\* A JavaScript value of an argument list: a plain value, a Future, a function,
\* an array or an object with named keys (in insertion order).
Val(x) == [type |-> "val", v |-> x, f |-> 0, keys |-> <<>>, items |-> <<>>]
Fut(f) == [type |-> "fut", v |-> "", f |-> f, keys |-> <<>>, items |-> <<>>]
Fn(name) == [type |-> "fn", v |-> name, f |-> 0, keys |-> <<>>, items |-> <<>>]
Arr(items) == [type |-> "arr", v |-> "", f |-> 0, keys |-> <<>>, items |-> items]
Obj(keys, items) == [type |-> "obj", v |-> "", f |-> 0, keys |-> keys, items |-> items]
Undefined == Val("undefined")

IsContainer(n) == n.type \in {"arr", "obj"}

\* The positions (paths of indexes) at which searchFutures meets a Future, in
\* the order of its walk: own property names in order, depth first, never
\* descending into a Future or a function.
FlattenPaths(ps) ==
    LET F[i \in 0..Len(ps)] == IF i = 0 THEN <<>> ELSE F[i - 1] \o ps[i]
    IN  F[Len(ps)]

FuturePaths(n) ==
    IF n.type = "fut" THEN << <<>> >>
    ELSE IF IsContainer(n)
    THEN FlattenPaths([i \in 1..Len(n.items) |->
             LET sub == FuturePaths(n.items[i])
             IN  [j \in 1..Len(sub) |-> <<i>> \o sub[j]]])
    ELSE <<>>

GetAt(n, p) == IF p = <<>> THEN n ELSE GetAt(n.items[Head(p)], Tail(p))

\* obj[key] = result
ReplaceAt(n, p, new) ==
    IF p = <<>> THEN new
    ELSE [n EXCEPT !.items[Head(p)] = ReplaceAt(@, Tail(p), new)]

\* The futures of a tree (for the properties).
FutureSetOf(n) == {GetAt(n, q).f : q \in {FuturePaths(n)[i] : i \in 1..Len(FuturePaths(n))}}

\* ------------------------------------------------------------------ TaskList objects
\* [] : a new array
NewArray == <<>>
\* new TaskList(): this._tasks = [], the array a
NewTaskList(a) == [tasks |-> a]

\* ------------------------------------------------------------------ Future
\* new Future(): done = false, _call = null, _callback = the closure that sets done.
NewFuture == [done |-> FALSE, call |-> "null", callback |-> [null |-> FALSE, cbs |-> <<>>]]

\* A client callback's body.
UserCallback(w, name, f, v) ==
    LET w1 == [w EXCEPT !.cbLog[f] = Append(@, [cb |-> name, val |-> v])]
    IN  CASE name = "readd" ->
               LET r == FutureAddCallback(w1, f, UserCb(LateName))
                   rec == CallRec("add", f, 0, LateName, "", w1.fut[f].done, RefusedBefore(w1.cbLog[f]), r.exc, "",
                                  Count(r.w.cbLog[f], LateName) - Count(w1.cbLog[f], LateName),
                                  Core(r.w) = Core(w1))
               IN  Ok([r.w EXCEPT !.nested = Append(w1.nested, rec) \o SubSeq(@, Len(w1.nested) + 1, Len(@))])
          [] name = "reset" ->
               LET r == FutureSet(w1, f, OtherValue(v))
                   rec == CallRec("set", f, 0, "", OtherValue(v), w1.fut[f].done, RefusedBefore(w1.cbLog[f]), r.exc, "",
                                  0, Core(r.w) = Core(w1) /\ r.w.cbLog = w1.cbLog)
               IN  Ok([r.w EXCEPT !.nested = Append(w1.nested, rec) \o SubSeq(@, Len(w1.nested) + 1, Len(@)),
                                  !.cbLog[f] = IF r.exc = NoExc THEN @ ELSE Append(@, Refused(OtherValue(v)))])
          [] OTHER -> Ok(w1)

\* a chain calling the callback given last first
DispatchBackwards(w, f, cbs, v, i) ==
    IF i > Len(cbs) THEN Ok(w)
    ELSE LET r == InvokeCallback(w, cbs[Len(cbs) + 1 - i], f, v)
         IN  IF r.exc # NoExc THEN r ELSE DispatchBackwards(r.w, f, cbs, v, i + 1)

\* The chain this._callback built by addCallback: previous(value); callback(value).
\* An exception raised by a callback leaves the chain at once.
Dispatch(w, f, cbs, v, i) ==
    IF i > Len(cbs) THEN Ok(w)
    ELSE LET r == InvokeCallback(w, cbs[i], f, v)
         IN  IF r.exc # NoExc THEN r ELSE Dispatch(r.w, f, cbs, v, i + 1)

\* Future.set(value)
FutureSet(w, f, v) ==
    IF w.fut[f].done THEN Throw(w, AlreadyDone)
    ELSE LET w1 == [w EXCEPT !.fut[f].done = TRUE]   \* the first closure of the chain
             r == Dispatch(w1, f, w.fut[f].callback.cbs, v, 1)
         IN  IF r.exc # NoExc THEN r
             ELSE Ok([r.w EXCEPT !.fut[f].callback = [null |-> TRUE, cbs |-> <<>>],
                                 !.fut[f].call = v])

\* addCallback putting the callback in front of the ones registered before
FutureAddCallbackInFront(w, f, cb) ==
    IF w.fut[f].done
    THEN IF w.fut[f].call = "null" THEN Throw(w, TypeError)
         ELSE InvokeCallback(w, cb, f, w.fut[f].call)
    ELSE Ok([w EXCEPT !.fut[f].callback.cbs = <<cb>> \o @])

\* Future.addCallback(callback)
FutureAddCallback(w, f, cb) ==
    IF w.fut[f].done
    THEN IF w.fut[f].call = "null" THEN Throw(w, TypeError)   \* this._call is still null
         ELSE InvokeCallback(w, cb, f, w.fut[f].call)
    ELSE Ok([w EXCEPT !.fut[f].callback.cbs = Append(@, cb)])


\* ------------------------------------------------------------------ Task
\* The functions tasks are made of: length is the declared parameter count;
\* mode is what the body does with the callback it is given: "sync" ignores
\* its arguments and returns, "later" keeps the callback to call it after it
\* has returned, "inline" calls it before returning; these return "ret".
\* "throw" raises instead of returning.
Func(length, mode) == [length |-> length, mode |-> mode]
\* What a function gives to its callback: nothing, or two values.
CallbackArgs == {"", "42,47"}
InlineArgs == "42,47"

\* The callback given to Task.run: the client's own, or the closure that
\* TaskList.run number r gives to the tasks it runs.
NoRunCb == [kind |-> "none", run |-> 0]
ClientRunCb == [kind |-> "client", run |-> 0]
ListRunCb(r) == [kind |-> "list", run |-> r]

\* new Task(func, args)
\* a constructor that lists the futures of the arguments as it creates the task
NewTaskWithFutures(func, args, id) ==
    [func |-> func, args |-> args, status |-> PROCRASTINATING, id |-> id,
     futures |-> [i \in 1..Len(FuturePaths(args)) |-> GetAt(args, FuturePaths(args)[i]).f],
     notes |-> {}, called |-> FALSE, pending |-> 0, callback |-> NoRunCb]
NewTask(func, args, id) ==
    [func |-> func, args |-> args, status |-> PROCRASTINATING, id |-> id,
     futures |-> <<>>, notes |-> {}, called |-> FALSE, pending |-> 0,
     callback |-> NoRunCb]
\* What is recorded of a task: the argument tree it was created with, the
\* argument trees its function was invoked with, what the callback of the
\* accepted run() received, the status seen and the arguments received by the
\* function's own callback, and every value this.status was given.
NewTaskLog(args) ==
    [orig |-> args, calls |-> <<>>, runCb |-> <<>>, userCb |-> <<>>,
     statuses |-> <<PROCRASTINATING>>]

\* The callback given to run(): the client records what it receives (in a
\* "runcb" record, v is the error and ret the result).
RunCbRec(t, err, result) == CallRec("runcb", 0, t, "", err, FALSE, "", NoExc, result, 0, FALSE)
\* What is recorded of a call of the run callback: its arguments and the
\* status of the task it sees.
RunCbLog(w, t, err, result) == [err |-> err, result |-> result, status |-> w.tasks[t].status]
RunCallback(w, t, err, result) ==
    [w EXCEPT !.tlog[t].runCb = Append(@, RunCbLog(w, t, err, result)),
              !.nested = Append(@, RunCbRec(t, err, result))]
\* The callback given to a run() that is refused.
RefusedRunCallback(w, t, err) == [w EXCEPT !.nested = Append(@, RunCbRec(t, err, "null"))]

SetStatus(w, t, status) ==
    [w EXCEPT !.tasks[t].status = status, !.tlog[t].statuses = Append(@, status)]

\* this.futures.indexOf(value), 0 standing for -1
IndexOf(s, x) ==
    IF \E i \in 1..Len(s) : s[i] = x
    THEN CHOOSE i \in 1..Len(s) : s[i] = x /\ \A j \in 1..(i - 1) : s[j] # x
    ELSE 0

\* this.futures.splice(index, 1); splice(-1, 1) removes the last element
Splice(s, i) ==
    LET k == IF i = 0 THEN Len(s) ELSE i
    IN  IF Len(s) = 0 THEN s ELSE SubSeq(s, 1, k - 1) \o SubSeq(s, k + 1, Len(s))

\* TaskList.run: removeTask(task), on the array the run works on
RemoveTask(w, r, t) ==
    [w EXCEPT !.arrays[w.runs[r].tasks] = Splice(@, IndexOf(@, t))]

\* TaskList.run: the callback given to task.run.  The client's changesCallback
\* and doneCallback record what they receive (doneCallback also what the
\* changesCallback had received by then and the tasks the list holds) and return.
ListCallback(w, r, t, err, result) ==
    LET entry == [task |-> t, err |-> err, result |-> result]
        w1 == [w EXCEPT !.runs[r].results = Append(@, entry),
                        !.runs[r].each = Append(@, [err |-> err, result |-> result, task |-> t])]
        w2 == RemoveTask(w1, r, t)
    IN  IF Len(w2.arrays[w2.runs[r].tasks]) = 0
        THEN [w2 EXCEPT !.runs[r].done =
                 Append(@, [results |-> w2.runs[r].results, each |-> w2.runs[r].each,
                            live |-> w2.arrays[w2.runs[r].tasks]])]
        ELSE w2

\* callback(err, result), for the callback the accepted run() was given
InvokeRunCallback(w, t, err, result) ==
    IF w.tasks[t].callback.kind = "list"
    THEN ListCallback([w EXCEPT !.tlog[t].runCb = Append(@, RunCbLog(w, t, err, result))],
                      w.tasks[t].callback.run, t, err, result)
    ELSE RunCallback(w, t, err, result)

\* callback(err, null), for the callback a refused run() was given
RefusedRun(w, t, cb, err) ==
    IF cb.kind = "list" THEN ListCallback(w, cb.run, t, err, "null")
    ELSE RefusedRunCallback(w, t, err)

\* cback: this.status = DONE; callback(err, result)
Cback(w, t, err, result) ==
    InvokeRunCallback(SetStatus(w, t, DONE), t, err, result)

\* the wrapper reporting no error whatever lastArg does
WrapperIgnoringRaise(w, t, args, result) ==
    Cback([w EXCEPT !.tlog[t].userCb = Append(@, [status |-> w.tasks[t].status, args |-> args])],
          t, "null", result)

\* The wrapper put at args[func.length - 1]: lastArg(...arguments) inside
\* try/catch, then cback.  The callback named "cbthrow" raises, "cb" returns.
Wrapper(w, t, args, result) ==
    LET lastArg == w.tasks[t].args.items[w.tasks[t].func.length]
        w1 == [w EXCEPT !.tlog[t].userCb =
                   Append(@, [status |-> w.tasks[t].status, args |-> args])]
    IN  IF lastArg.v = "cbthrow" THEN Cback(w1, t, CbError, result)
        ELSE Cback(w1, t, "null", result)

\* applyMaybe taking the last argument given for the callback
ApplyLastGiven(w, t) ==
    LET task == w.tasks[t]
        n == Len(task.args.items)
        lastArg == IF n >= 1 THEN task.args.items[n] ELSE Undefined
        w0 == SetStatus(w, t, RUNNING)
        w1 == [w0 EXCEPT !.tlog[t].calls = Append(@, task.args)]
    IN  IF task.func.mode = "throw" THEN Throw(w1, FuncError)
        ELSE IF lastArg.type = "fn"
        THEN IF task.func.mode = "later"
             THEN Ok([w1 EXCEPT !.tasks[t].pending = @ + 1])
             ELSE IF task.func.mode = "inline"
             THEN Ok(Wrapper(w1, t, InlineArgs, "undefined"))
             ELSE Ok(w1)
        ELSE Ok(Cback(w1, t, "null", "ret"))

\* Task.applyMaybe(callback), once all futures are done: the status, the
\* argument list (this.args.slice()), the callback wrapped when the argument
\* at the last declared parameter is a function, and the call of the function.
Apply(w, t) ==
    LET task == w.tasks[t]
        n == task.func.length
        lastArg == IF n >= 1 /\ n <= Len(task.args.items)
                   THEN task.args.items[n] ELSE Undefined
        w0 == SetStatus(w, t, RUNNING)
        w1 == [w0 EXCEPT !.tlog[t].calls = Append(@, task.args)]
    IN  IF task.func.mode = "throw" THEN Throw(w1, FuncError)
        ELSE IF lastArg.type = "fn"
        THEN IF task.func.mode = "later"
             THEN Ok([w1 EXCEPT !.tasks[t].pending = @ + 1])
             ELSE IF task.func.mode = "inline"
             THEN Ok(Wrapper(w1, t, InlineArgs, "undefined"))
             ELSE Ok(w1)
        ELSE Ok(Cback(w1, t, "null", "ret"))

\* applyMaybe without the test of the status
ApplyMaybeIgnoringCancel(w, t) ==
    IF Len(w.tasks[t].futures) > 0 THEN Ok(w) ELSE Apply(w, t)

\* Task.applyMaybe(callback)
ApplyMaybe(w, t) ==
    IF w.tasks[t].status = CANCELED \/ Len(w.tasks[t].futures) > 0 THEN Ok(w)
    ELSE Apply(w, t)

\* The callback searchFutures gives to the future found at position p.
TaskCallback(w, t, p, f, v) ==
    LET w1 == [w EXCEPT !.tasks[t].args = ReplaceAt(@, p, Val(v)),
                        !.tasks[t].futures = Splice(@, IndexOf(@, f))]
    IN  ApplyMaybe(w1, t)

\* Task.searchFutures(this.args, callback): the futures of the tree, in the
\* order of the walk; a future that is done calls back at once, inside the walk.
SearchFutures(w, t, paths, i) ==
    IF i > Len(paths) THEN Ok(w)
    ELSE LET p == paths[i]
             f == GetAt(w.tasks[t].args, p).f
             w1 == [w EXCEPT !.tasks[t].futures = Append(@, f)]
             r == FutureAddCallback(w1, f, TaskCb(t, p))
         IN  IF r.exc # NoExc THEN r ELSE SearchFutures(r.w, t, paths, i + 1)

\* Task.run(callback) past its two guards
RunAccepted(w, t, cb) ==
    LET w1 == [w EXCEPT !.tasks[t].called = TRUE, !.tasks[t].callback = cb]
        r == SearchFutures(w1, t, FuturePaths(w1.tasks[t].args), 1)
    IN  IF r.exc # NoExc THEN r
        ELSE IF r.w.tasks[t].status = PROCRASTINATING THEN ApplyMaybe(r.w, t)
        ELSE r

\* run without the test for a canceled task
TaskRunIgnoringCancel(w, t, cb) ==
    IF w.tasks[t].called THEN Ok(RefusedRun(w, t, cb, RunTwice))
    ELSE RunAccepted(w, t, cb)

\* Task.run(callback)
TaskRun(w, t, cb) ==
    IF w.tasks[t].called THEN Ok(RefusedRun(w, t, cb, RunTwice))
    ELSE IF w.tasks[t].status = CANCELED THEN Ok(RefusedRun(w, t, cb, RunCanceled))
    ELSE RunAccepted(w, t, cb)

\* cancel canceling whatever is not canceled yet
TaskCancelAnyStatus(w, t) ==
    IF w.tasks[t].status = CANCELED THEN [w |-> w, exc |-> CancelTwice, ret |-> ""]
    ELSE [w |-> SetStatus(w, t, CANCELED), exc |-> NoExc, ret |-> "true"]

\* cancel returning false for a task canceled already
TaskCancelNoThrow(w, t) ==
    IF w.tasks[t].status # PROCRASTINATING THEN [w |-> w, exc |-> NoExc, ret |-> "false"]
    ELSE [w |-> SetStatus(w, t, CANCELED), exc |-> NoExc, ret |-> "true"]

\* Task.cancel(): the world, the exception and the value returned
TaskCancel(w, t) ==
    IF w.tasks[t].status = CANCELED THEN [w |-> w, exc |-> CancelTwice, ret |-> ""]
    ELSE IF w.tasks[t].status # PROCRASTINATING THEN [w |-> w, exc |-> NoExc, ret |-> "false"]
    ELSE [w |-> SetStatus(w, t, CANCELED), exc |-> NoExc, ret |-> "true"]

\* ------------------------------------------------------------------ TaskList
\* What TaskList.run number r keeps: the array it works on (const tasks =
\* this._tasks) and its results; and what is recorded of it: the tasks of the
\* array when it was called, those of them that were not canceled, the tasks
\* it called run() on, what changesCallback received (each) and what
\* doneCallback received at each of its calls (done).
NewListRun(a, snapshot, toRun) ==
    [tasks |-> a, results |-> <<>>, snapshot |-> snapshot, toRun |-> toRun,
     started |-> <<>>, each |-> <<>>, done |-> <<>>]

RECURSIVE ListRunEachBackwards(_, _, _, _)
\* the loop going through the tasks from the last one to the first
ListRunEachBackwards(w, r, snapshot, i) ==
    IF i > Len(snapshot) THEN Ok(w)
    ELSE LET t == snapshot[Len(snapshot) + 1 - i]
         IN  IF w.tasks[t].status = CANCELED
             THEN ListRunEachBackwards(RemoveTask(w, r, t), r, snapshot, i + 1)
             ELSE LET res == TaskRun([w EXCEPT !.runs[r].started = Append(@, t)], t, ListRunCb(r))
                  IN  IF res.exc # NoExc THEN res
                      ELSE ListRunEachBackwards(res.w, r, snapshot, i + 1)

RECURSIVE ListRunEach(_, _, _, _)
\* tasks.slice().forEach(task => ...): an exception leaves the loop
ListRunEach(w, r, snapshot, i) ==
    IF i > Len(snapshot) THEN Ok(w)
    ELSE LET t == snapshot[i]
         IN  IF w.tasks[t].status = CANCELED
             THEN ListRunEach(RemoveTask(w, r, t), r, snapshot, i + 1)
             ELSE LET res == TaskRun([w EXCEPT !.runs[r].started = Append(@, t)], t, ListRunCb(r))
                  IN  IF res.exc # NoExc THEN res
                      ELSE ListRunEach(res.w, r, snapshot, i + 1)

\* TaskList.run(changesCallback, doneCallback) on the list l
TaskListRun(w, l) ==
    LET snapshot == w.arrays[l.tasks]
        r == Len(w.runs) + 1
        toRun == SelectSeq(snapshot, LAMBDA t : w.tasks[t].status # CANCELED)
        w1 == [w EXCEPT !.runs = Append(@, NewListRun(l.tasks, snapshot, toRun))]
    IN  IF Len(snapshot) = 0
        THEN Ok([w1 EXCEPT !.runs[r].done =
                    Append(@, [results |-> <<>>, each |-> <<>>, live |-> snapshot])])
        ELSE ListRunEach(w1, r, snapshot, 1)

\* Calling a callback registered on a future.
InvokeCallback(w, cb, f, v) ==
    IF cb.kind = "user" THEN UserCallback(w, cb.name, f, v)
    ELSE TaskCallback(w, cb.task, cb.path, f, v)

\* ------------------------------------------------------------------ notes
\* A value written in the program text or in JSON text: a string, an array of
\* strings, or undefined.  An object written so is a set of <<key, value>>.
LAtom(x) == [kind |-> "atom", v |-> x, items |-> <<>>]
LArray(items) == [kind |-> "array", v |-> "", items |-> items]
LUndefined == [kind |-> "undefined", v |-> "", items |-> <<>>]
\* A value held by a property of an object in memory: a string, a reference to
\* an array in memory, or undefined.
NAtom(x) == [kind |-> "atom", v |-> x, ref |-> 0]
NRef(a) == [kind |-> "ref", v |-> "", ref |-> a]
NUndefined == [kind |-> "undefined", v |-> "", ref |-> 0]
\* What the memory holds at an address: an object or an array.
ObjectCell(props) == [kind |-> "object", props |-> props, items |-> <<>>]
ArrayCell(items) == [kind |-> "array", props |-> {}, items |-> items]
\* The keys notes are given under, in the order the objects list them.
NoteKeyOrder == <<"name", "args">>
NoteKeys(ns) == {n[1] : n \in ns}
HasKey(ns, k) == k \in NoteKeys(ns)
\* obj[k] of an object written as text (undefined when it has no such key)
LGet(text, k) == IF HasKey(text, k) THEN (CHOOSE n \in text : n[1] = k)[2] ELSE LUndefined
\* What an object in the memory h with the properties ns reads as, arrays included.
Deep(h, ns) ==
    {<<n[1], IF n[2].kind = "ref" THEN LArray(h[n[2].ref].items)
             ELSE [kind |-> n[2].kind, v |-> n[2].v, items |-> <<>>]>> : n \in ns}
\* JSON.stringify: a property holding undefined is left out
Stringify(h, ns) == {n \in Deep(h, ns) : n[2].kind # "undefined"}
RECURSIVE Build(_, _, _, _)
\* The evaluation of an object written as text: every array of it is a new
\* array in the memory.
Build(h, text, i, acc) ==
    IF i > Len(NoteKeyOrder) THEN [heap |-> h, props |-> acc]
    ELSE LET k == NoteKeyOrder[i]
             v == LGet(text, k)
         IN  IF ~HasKey(text, k) THEN Build(h, text, i + 1, acc)
             ELSE IF v.kind = "array"
             THEN Build(Append(h, ArrayCell(v.items)), text, i + 1,
                        acc \cup {<<k, NRef(Len(h) + 1)>>})
             ELSE Build(h, text, i + 1, acc \cup {<<k, [kind |-> v.kind, v |-> v.v, ref |-> 0]>>})
\* JSON.parse
Parse(h, text) == Build(h, text, 1, {})
\* JSON.parse(JSON.stringify(notes))
JsonCopy(h, ns) == Parse(h, Stringify(h, ns))
\* info() handing out the properties of the task's own notes, arrays shared
TaskInfoShared(h, ns) == [heap |-> h, props |-> ns]
\* Task.info(): the notes of the object returned
TaskInfo(h, ns) == JsonCopy(h, ns)

\* note() putting the copy of the notes given in the place of the notes held
TaskNoteReplacing(w, t, ns) == [w EXCEPT !.tasks[t].notes = ns]
\* Task.note(notes): Object.assign on the copy of the notes given
TaskNote(w, t, ns) ==
    [w EXCEPT !.tasks[t].notes = {n \in @ : n[1] \notin NoteKeys(ns)} \cup ns]


\* ------------------------------------------------------------------ actions
Init ==
    /\ fut = [f \in Futures |-> NewFuture]
    /\ tasks = <<>>
    /\ counter = 0
    /\ cbLog = [f \in Futures |-> <<>>]
    /\ arrays = <<NewArray>>
    /\ list = NewTaskList(1)
    /\ runs = <<>>
    /\ tlog = <<>>
    /\ heap = <<>>
    /\ client = [inputs |-> <<>>, infos |-> <<>>, copies |-> <<>>, ran |-> <<>>]
    /\ reg = [f \in Futures |-> <<>>]
    /\ last = <<>>

Commit(r, top) ==
    /\ fut' = r.w.fut
    /\ tasks' = r.w.tasks
    /\ arrays' = r.w.arrays
    /\ runs' = r.w.runs
    /\ tlog' = r.w.tlog
    /\ last' = top \o r.w.nested

\* The client calls f.set(v).
Set(f, v) ==
    LET r == FutureSet(World, f, v)
    IN  /\ Commit(r, <<CallRec("set", f, 0, "", v, fut[f].done, RefusedBefore(cbLog[f]), r.exc, "", 0,
                               Core(r.w) = Core(World) /\ r.w.cbLog = cbLog)>>)
        /\ cbLog' = IF r.exc = AlreadyDone THEN [r.w.cbLog EXCEPT ![f] = Append(@, Refused(v))]
                    ELSE r.w.cbLog
        /\ UNCHANGED <<heap, client, counter, list, reg>>

\* The client calls f.addCallback(cb).
AddCallback(f, name) ==
    LET r == FutureAddCallback(World, f, UserCb(name))
    IN  /\ Commit(r, <<CallRec("add", f, 0, name, "", fut[f].done, RefusedBefore(cbLog[f]), r.exc, "",
                               Count(r.w.cbLog[f], name) - Count(cbLog[f], name),
                               Core(r.w) = Core(World))>>)
        /\ cbLog' = r.w.cbLog
        /\ reg' = IF fut[f].done THEN reg ELSE [reg EXCEPT ![f] = Append(@, name)]
        /\ UNCHANGED <<heap, client, counter, list>>

\* A client working on one future with callbacks of its own (futures do not
\* interact with each other unless a task holds several of them).
ClientFutures == {f \in Futures : f = 1}

\* The calls the client has made on f that left a trace: callbacks waiting,
\* callbacks invoked, sets refused.
ClientCalls(f) == Len(fut[f].callback.cbs) + Len(cbLog[f])

NextFuture ==
    \/ \E f \in ClientFutures, v \in Values : ClientCalls(f) < MaxCallbacks /\ Set(f, v)
    \/ \E f \in ClientFutures, name \in CallbackNames :
          ClientCalls(f) < MaxCallbacks /\ AddCallback(f, name)

SpecFuture == Init /\ [][NextFuture]_vars

\* ------------------------------------------------------------------ task actions
\* The calls dude.task(func, ...args) the client makes: functions without
\* futures (synchronous, and asynchronous with the callback as last argument),
\* an asynchronous function waiting for a future, and a function with one
\* future at top level and another one inside an array inside an object, next
\* to plain values; an asynchronous function whose callback raises, and one
\* waiting for two futures.
TaskShapes ==
    {[func |-> Func(1, "sync"), args |-> Arr(<<Val("x")>>)],
     [func |-> Func(1, "later"), args |-> Arr(<<Fn("cb")>>)],
     [func |-> Func(1, "inline"), args |-> Arr(<<Fn("cb")>>)]}
    \cup {[func |-> Func(2, "later"), args |-> Arr(<<Fut(f), Fn("cb")>>)] : f \in Futures}
    \cup {[func |-> Func(1, mode), args |-> Arr(<<Fn("cbthrow")>>)] : mode \in {"later", "inline"}}
    \cup {[func |-> Func(3, "later"), args |-> Arr(<<Fut(fg[1]), Fut(fg[2]), Fn("cb")>>)] :
          fg \in {x \in Futures \X Futures : x[2] = x[1] + 1}}
    \cup {[func |-> Func(2, "sync"),
           args |-> Arr(<<Fut(fg[1]),
                          Obj(<<"p", "s">>, <<Arr(<<Val("y"), Fut(fg[2])>>), Val("x")>>)>>)] :
          fg \in {x \in Futures \X Futures : x[2] = x[1] + 1}}

\* createTask(func, ...args)
CreateTask(shape) ==
    /\ Len(tasks) < MaxTasks
    /\ tasks' = Append(tasks, NewTask(shape.func, shape.args, counter))
    /\ counter' = counter + 1
    /\ tlog' = Append(tlog, NewTaskLog(shape.args))
    /\ last' = <<>>
    /\ UNCHANGED <<heap, client, fut, arrays, list, runs, cbLog, reg>>

\* The client calls task.run(callback).
Run(t) ==
    LET r == TaskRun(World, t, ClientRunCb)
    IN  /\ Commit(r, <<CallRec("run", 0, t, "", "", tasks[t].called, tasks[t].status, r.exc, "",
                               Len(r.w.tlog[t].calls) - Len(tlog[t].calls),
                               Core(r.w) = Core(World))>>)
        /\ UNCHANGED <<heap, client, counter, list, cbLog, reg>>

\* The client calls task.cancel().
Cancel(t) ==
    LET r == TaskCancel(World, t)
    IN  /\ Commit(r, <<CallRec("cancel", 0, t, "", "", tasks[t].called, tasks[t].status,
                               r.exc, r.ret, 0, Core(r.w) = Core(World))>>)
        /\ UNCHANGED <<heap, client, counter, list, cbLog, reg>>

\* The notes clients give: {name: 'sum'}, {args: 'none'}, {name: undefined}
\* and, with an array, {name: 'mul', args: ['2']}.
NoteInputs == {"sum", "args", "undefined"}
NoteLiteral(name) ==
    IF name = "sum" THEN {<<"name", LAtom("sum")>>}
    ELSE IF name = "args" THEN {<<"args", LAtom("none")>>}
    ELSE IF name = "mul" THEN {<<"name", LAtom("mul")>>, <<"args", LArray(<<"2">>)>>}
    ELSE {<<"name", LUndefined>>}
\* The client calls task.note(notes) with the object named; when kept, the client
\* holds on to the object it gave.
Note(t, name, kept) ==
    LET given == Build(heap, NoteLiteral(name), 1, {})
        h1 == IF kept THEN Append(given.heap, ObjectCell(given.props)) ELSE heap
        copy == Parse(h1, Stringify(given.heap, given.props))
        w == TaskNote(World, t, copy.props)
    IN  /\ Len(copy.heap) <= MaxHeap
        /\ heap' = copy.heap
        /\ client' = IF kept THEN [client EXCEPT !.inputs = Append(@, Len(h1))] ELSE client
        /\ Commit(Ok(w), <<CallRec("note", 0, t, "", name, tasks[t].called, tasks[t].status,
                                   NoExc, "", 0,
                                   /\ [w.tasks EXCEPT ![t].notes = tasks[t].notes] = tasks
                                   /\ w.fut = fut /\ w.arrays = arrays /\ w.runs = runs)>>)
        /\ UNCHANGED <<counter, list, cbLog, reg>>

\* The client calls task.info() and holds on to the notes of the object returned.
Info(t) ==
    LET r == TaskInfo(heap, tasks[t].notes)
        h1 == Append(r.heap, ObjectCell(r.props))
    IN  /\ Len(h1) <= MaxHeap
        /\ heap' = h1
        /\ client' = [client EXCEPT !.infos = Append(@, [t |-> t, id |-> tasks[t].id,
                                                          status |-> tasks[t].status,
                                                          notes |-> Len(h1)])]
        /\ last' = <<CallRec("info", Len(h1), t, "", "", tasks[t].called, tasks[t].status,
                             NoExc, "", 0, TRUE)>>
        /\ UNCHANGED <<fut, tasks, counter, arrays, list, runs, cbLog, tlog, reg>>

\* The objects and arrays the client holds: what it gave to note(), what
\* info() returned, and the arrays in them.
HeldObjects == {client.inputs[i] : i \in 1..Len(client.inputs)}
                   \cup {client.infos[i].notes : i \in 1..Len(client.infos)}
ArraysOf(a) == {n[2].ref : n \in {m \in heap[a].props : m[2].kind = "ref"}}
Held == HeldObjects \cup UNION {ArraysOf(a) : a \in HeldObjects}
\* The client changes something it holds: notes.name = 'changed' on an object,
\* args[0] = 'changed' on an array.
Mutate(a) ==
    /\ a \in Held
    /\ heap' = [heap EXCEPT ![a] =
                   IF @.kind = "array" THEN ArrayCell(<<"changed">> \o Tail(@.items))
                   ELSE ObjectCell({n \in @.props : n[1] # "name"} \cup {<<"name", NAtom("changed")>>})]
    /\ last' = <<CallRec("mutate", a, 0, "", "", FALSE, "", NoExc, "", 0, FALSE)>>
    /\ UNCHANGED <<fut, tasks, counter, arrays, list, runs, cbLog, tlog, reg, client>>

\* An asynchronous function calls the callback it was given, after returning.
Complete(t, args) ==
    /\ tasks[t].pending > 0
    /\ Commit(Ok(Wrapper([World EXCEPT !.tasks[t].pending = @ - 1], t, args, "ret")),
              <<CallRec("complete", 0, t, "", args, tasks[t].called, tasks[t].status,
                        NoExc, "", 0, FALSE)>>)
    /\ UNCHANGED <<heap, client, counter, list, cbLog, reg>>

Next ==
    \/ \E shape \in TaskShapes : CreateTask(shape)
    \/ \E t \in 1..Len(tasks) : Run(t)
    \/ \E t \in 1..Len(tasks) : Cancel(t)
    \/ \E t \in 1..Len(tasks), args \in CallbackArgs : Complete(t, args)
    \/ \E f \in Futures : ~fut[f].done /\ Set(f, ValueOf(f))

Spec == Init /\ [][Next]_vars

\* ------------------------------------------------------------------ list actions
\* makeLazy(funcOrObj, createTask): calling the decorated function (or a
\* decorated method) with the arguments of a shape is createTask(func, ...arguments).
\* dude.lazy(func)(...args): the createTask given is createTask itself
Lazy(shape) == CreateTask(shape)

\* a createTask giving the task the identifier of the one before
CreateAndAddReusingId(shape) ==
    /\ Len(tasks) < MaxListTasks
    /\ tasks' = Append(tasks, NewTask(shape.func, shape.args, counter))
    /\ tlog' = Append(tlog, NewTaskLog(shape.args))
    /\ arrays' = [arrays EXCEPT ![list.tasks] = Append(@, Len(tasks) + 1)]
    /\ last' = <<>>
    /\ UNCHANGED <<heap, client, fut, counter, list, runs, cbLog, reg>>

\* list.lazy putting the task at the front of the list
CreateAndAddInFront(shape) ==
    /\ Len(tasks) < MaxListTasks
    /\ tasks' = Append(tasks, NewTask(shape.func, shape.args, counter))
    /\ counter' = counter + 1
    /\ tlog' = Append(tlog, NewTaskLog(shape.args))
    /\ arrays' = [arrays EXCEPT ![list.tasks] = <<Len(tasks) + 1>> \o @]
    /\ last' = <<CallRec("list.lazy", 0, Len(tasks) + 1, "", "", FALSE, "", NoExc, "", 0, FALSE)>>
    /\ UNCHANGED <<heap, client, fut, list, runs, cbLog, reg>>

\* list.lazy(func)(...args): createTask and this.add(task)
CreateAndAdd(shape) ==
    /\ Len(tasks) < MaxListTasks
    /\ tasks' = Append(tasks, NewTask(shape.func, shape.args, counter))
    /\ counter' = counter + 1
    /\ tlog' = Append(tlog, NewTaskLog(shape.args))
    /\ arrays' = [arrays EXCEPT ![list.tasks] = Append(@, Len(tasks) + 1)]
    /\ last' = <<CallRec("list.lazy", 0, Len(tasks) + 1, "", "", FALSE, "", NoExc, "", 0, FALSE)>>
    /\ UNCHANGED <<heap, client, fut, list, runs, cbLog, reg>>

\* list.lazy(func)(...args)
ListLazy(shape) == CreateAndAdd(shape)

\* The client calls list.run(changesCallback, doneCallback).
ListRun ==
    /\ Len(runs) < MaxListRuns
    /\ LET r == TaskListRun(World, list)
       IN  Commit(r, <<CallRec("list.run", 0, 0, "", "", FALSE, "", r.exc, "", 0, FALSE)>>)
    /\ UNCHANGED <<heap, client, counter, list, cbLog, reg>>

\* list.asArray() handing out the list's own array
TaskListAsArrayShared(arrs, l) == [arrays |-> arrs, ret |-> l.tasks]
\* TaskList.asArray(): this._tasks.slice() is a new array
TaskListAsArray(arrs, l) == [arrays |-> Append(arrs, arrs[l.tasks]), ret |-> Len(arrs) + 1]
\* list.clear() leaving the list as it is
TaskListClearNothing(arrs, l) == [arrays |-> arrs, list |-> l]
\* TaskList.clear(): this._tasks = [] is a new array
TaskListClear(arrs, l) ==
    [arrays |-> Append(arrs, NewArray), list |-> [l EXCEPT !.tasks = Len(arrs) + 1]]

\* The client calls list.asArray() and holds on to the array returned.
AsArray ==
    LET r == TaskListAsArray(arrays, list)
    IN  /\ Len(arrays) < MaxArrays
        /\ arrays' = r.arrays
        /\ client' = [client EXCEPT !.copies = Append(@, r.ret)]
        /\ last' = <<CallRec("list.asArray", r.ret, 0, "", "", FALSE, "", NoExc, "", 0, FALSE)>>
        /\ UNCHANGED <<heap, fut, tasks, counter, list, runs, cbLog, tlog, reg>>

\* The client removes the last task of an array asArray() returned: tasks.pop().
MutateArray(i) ==
    /\ arrays[client.copies[i]] # <<>>
    /\ arrays' = [arrays EXCEPT ![client.copies[i]] = SubSeq(@, 1, Len(@) - 1)]
    /\ last' = <<CallRec("pop", client.copies[i], 0, "", "", FALSE, "", NoExc, "", 0, FALSE)>>
    /\ UNCHANGED <<heap, client, fut, tasks, counter, list, runs, cbLog, tlog, reg>>

\* The client calls list.clear().
Clear ==
    LET r == TaskListClear(arrays, list)
    IN  /\ Len(arrays) < MaxArrays
        /\ arrays' = r.arrays
        /\ list' = r.list
        /\ last' = <<CallRec("list.clear", 0, 0, "", "", FALSE, "", NoExc, "", 0, FALSE)>>
        /\ UNCHANGED <<heap, client, fut, tasks, counter, runs, cbLog, tlog, reg>>

\* The tasks put in lists: synchronous and asynchronous functions without
\* futures, a function that raises, and a synchronous function waiting for a future.
ListShapes ==
    {[func |-> Func(1, "sync"), args |-> Arr(<<Val("x")>>)],
     [func |-> Func(1, "later"), args |-> Arr(<<Fn("cb")>>)],
     [func |-> Func(1, "throw"), args |-> Arr(<<Val("x")>>)],
     [func |-> Func(1, "sync"), args |-> Arr(<<Fut(1)>>)]}

\* The tasks made outside the list.
PlainShapes == {[func |-> Func(1, "sync"), args |-> Arr(<<Val("x")>>)]}

NextList ==
    \/ \E shape \in PlainShapes : CreateTask(shape)
    \/ \E shape \in PlainShapes : Lazy(shape)
    \/ \E shape \in ListShapes : ListLazy(shape)
    \/ ListRun
    \/ \E t \in 1..Len(tasks) : Cancel(t)
    \/ \E t \in 1..Len(tasks) : Complete(t, "")
    \/ \E f \in ClientFutures : ~fut[f].done /\ Set(f, ValueOf(f))

SpecList == Init /\ [][NextList]_vars

\* The tasks of a list that is copied and cleared: an asynchronous function.
ArrayShapes == {[func |-> Func(1, "later"), args |-> Arr(<<Fn("cb")>>)]}

NextArray ==
    \/ \E shape \in ArrayShapes : ListLazy(shape)
    \/ ListRun
    \/ \E t \in 1..Len(tasks) : Complete(t, "")
    \/ AsArray
    \/ \E i \in 1..Len(client.copies) : MutateArray(i)
    \/ Clear

SpecArray == Init /\ [][NextArray]_vars

\* Tasks that carry notes: the functions without futures and one waiting for a future.
NoteShapes ==
    {[func |-> Func(1, "sync"), args |-> Arr(<<Val("x")>>)],
     [func |-> Func(1, "later"), args |-> Arr(<<Fn("cb")>>)],
     [func |-> Func(2, "later"), args |-> Arr(<<Fut(1), Fn("cb")>>)]}

NextNote ==
    \/ \E shape \in NoteShapes : CreateTask(shape)
    \/ \E t \in 1..Len(tasks) : Run(t)
    \/ \E t \in 1..Len(tasks) : Cancel(t)
    \/ \E t \in 1..Len(tasks), name \in NoteInputs : Note(t, name, FALSE)
    \/ \E t \in 1..Len(tasks), args \in CallbackArgs : Complete(t, args)
    \/ \E f \in ClientFutures : ~fut[f].done /\ Set(f, ValueOf(f))

SpecNote == Init /\ [][NextNote]_vars

\* Tasks waiting for the same future: a synchronous and an asynchronous function.
WaiterShapes ==
    {[func |-> Func(1, "sync"), args |-> Arr(<<Fut(1)>>)],
     [func |-> Func(2, "later"), args |-> Arr(<<Fut(1), Fn("cb")>>)]}
\* task(func, ...args) by a client that makes several tasks
CreateWaiter(shape) ==
    /\ Len(tasks) < MaxWaiters
    /\ tasks' = Append(tasks, NewTask(shape.func, shape.args, counter))
    /\ counter' = counter + 1
    /\ tlog' = Append(tlog, NewTaskLog(shape.args))
    /\ last' = <<>>
    /\ UNCHANGED <<heap, client, fut, arrays, list, runs, cbLog, reg>>
\* The client calls task.run(callback) and remembers the order of the calls
\* that were accepted.
RunInOrder(t) ==
    LET r == TaskRun(World, t, ClientRunCb)
    IN  /\ Commit(r, <<CallRec("run", 0, t, "", "", tasks[t].called, tasks[t].status, r.exc, "",
                               Len(r.w.tlog[t].calls) - Len(tlog[t].calls),
                               Core(r.w) = Core(World))>>)
        /\ client' = IF ~tasks[t].called /\ tasks[t].status # CANCELED
                     THEN [client EXCEPT !.ran = Append(@, t)] ELSE client
        /\ UNCHANGED <<heap, counter, list, cbLog, reg>>

NextShared ==
    \/ \E shape \in WaiterShapes : CreateWaiter(shape)
    \/ \E t \in 1..Len(tasks) : RunInOrder(t)
    \/ \E t \in 1..Len(tasks) : Cancel(t)
    \/ \E t \in 1..Len(tasks) : Complete(t, "")
    \/ \E f \in ClientFutures : ~fut[f].done /\ Set(f, ValueOf(f))

SpecShared == Init /\ [][NextShared]_vars

\* Functions and argument lists with a function at, before and after the last
\* declared parameter, and with none.
ArityShapes ==
    {[func |-> Func(1, "sync"), args |-> Arr(<<Val("x")>>)],
     [func |-> Func(1, "later"), args |-> Arr(<<Fn("cb")>>)],
     [func |-> Func(1, "inline"), args |-> Arr(<<Fn("cb")>>)],
     [func |-> Func(1, "sync"), args |-> Arr(<<Val("x"), Fn("cb")>>)],
     [func |-> Func(2, "sync"), args |-> Arr(<<Fn("cb"), Val("x")>>)],
     [func |-> Func(0, "sync"), args |-> Arr(<<Fn("cb")>>)],
     [func |-> Func(1, "sync"), args |-> Arr(<<Fut(1), Fn("cb")>>)],
     [func |-> Func(2, "later"), args |-> Arr(<<Fut(1), Fn("cb")>>)],
     [func |-> Func(3, "later"), args |-> Arr(<<Fn("cb"), Val("x"), Fn("cb")>>)]}

NextArity ==
    \/ \E shape \in ArityShapes : CreateTask(shape)
    \/ \E t \in 1..Len(tasks) : Run(t)
    \/ \E t \in 1..Len(tasks) : Cancel(t)
    \/ \E t \in 1..Len(tasks), args \in CallbackArgs : Complete(t, args)
    \/ \E f \in ClientFutures : ~fut[f].done /\ Set(f, ValueOf(f))

SpecArity == Init /\ [][NextArity]_vars

\* A client that gives notes, asks for them and changes what it holds.
NextInfo ==
    \/ \E shape \in PlainShapes : CreateTask(shape)
    \/ \E t \in 1..Len(tasks) : Note(t, "mul", TRUE)
    \/ \E t \in 1..Len(tasks) : Info(t)
    \/ \E a \in 1..Len(heap) : Mutate(a)

SpecInfo == Init /\ [][NextInfo]_vars

\* ------------------------------------------------------------------ properties
TaskIds == 1..Len(tasks)
IsCall(op) == Len(last) >= 1 /\ last[1].op = op

RECURSIVE Resolved(_)
\* The argument tree with every future that is done replaced by its value.
Resolved(n) ==
    IF n.type = "fut" THEN (IF fut[n.f].done THEN Val(fut[n.f].call) ELSE n)
    ELSE IF IsContainer(n) THEN [n EXCEPT !.items = [i \in 1..Len(n.items) |-> Resolved(n.items[i])]]
    ELSE n

\* C1: whenever the function of a task is invoked, no future is left anywhere
\* in the argument tree it receives: every position that held a future holds
\* that future's value and every other position holds what it held at creation.
C1_InvokedWithAllFuturesResolved ==
    \A t \in TaskIds : \A i \in 1..Len(tlog[t].calls) :
        /\ FuturePaths(tlog[t].calls[i]) = <<>>
        /\ tlog[t].calls[i] = Resolved(tlog[t].orig)

\* C2: the values this.status is given follow Procrastinating -> Running,
\* Running -> Done or Procrastinating -> Canceled, and nothing else.
LegalTransitions ==
    {<<PROCRASTINATING, RUNNING>>, <<RUNNING, DONE>>, <<PROCRASTINATING, CANCELED>>}
C2_LegalTransitionsOnly ==
    \A t \in TaskIds :
        /\ tlog[t].statuses[Len(tlog[t].statuses)] = tasks[t].status
        /\ \A i \in 1..(Len(tlog[t].statuses) - 1) :
               <<tlog[t].statuses[i], tlog[t].statuses[i + 1]>> \in LegalTransitions

\* C3: run(cb) on a task that was run already calls cb('cannot run a task
\* twice', null) at once, invokes nothing and changes nothing; the function of
\* a task is invoked at most once in all, and once when the task is Done.
C3_RunTwiceRefused ==
    IsCall("run") /\ last[1].doneBefore =>
        /\ last = <<last[1], RunCbRec(last[1].t, RunTwice, "null")>>
        /\ last[1].exc = NoExc /\ last[1].delivered = 0 /\ last[1].unchanged
        /\ Len(tlog[last[1].t].calls) <= 1
        /\ tasks[last[1].t].status = DONE => Len(tlog[last[1].t].calls) = 1

\* C4: run(cb) on a task canceled before any run() calls cb('cannot run a
\* canceled task', null), leaves the task Canceled, not called, with the same
\* dependencies, and the function of such a task is never invoked.
C4_RunCanceledRefused ==
    /\ IsCall("run") /\ last[1].before = CANCELED /\ ~last[1].doneBefore =>
           /\ last = <<last[1], RunCbRec(last[1].t, RunCanceled, "null")>>
           /\ last[1].exc = NoExc /\ last[1].delivered = 0 /\ last[1].unchanged
           /\ tasks[last[1].t].status = CANCELED /\ ~tasks[last[1].t].called
    /\ \A t \in TaskIds :
           tasks[t].status = CANCELED /\ ~tasks[t].called => tlog[t].calls = <<>>
C4_Witness ==
    IsCall("run") /\ last[1].before = CANCELED /\ ~last[1].doneBefore

\* C5: cancel() on a Procrastinating task, run or not, returns true and makes
\* it Canceled; from then on no step (no Future.set in particular) invokes its
\* function or changes its status.
C5_CancelProcrastinating ==
    [][/\ (Len(last') >= 1 /\ last'[1].op = "cancel" /\ last'[1].before = PROCRASTINATING) =>
              /\ last'[1].ret = "true" /\ last'[1].exc = NoExc
              /\ tasks'[last'[1].t].status = CANCELED
       /\ \A t \in TaskIds :
              tasks[t].status = CANCELED =>
                  tasks'[t].status = CANCELED /\ tlog'[t].calls = tlog[t].calls]_vars
\* a task run, then canceled while waiting, one of whose futures has just been set
C5_Witness ==
    /\ IsCall("set") /\ last[1].exc = NoExc
    /\ \E t \in TaskIds :
           /\ tasks[t].status = CANCELED /\ tasks[t].called
           /\ last[1].f \in FutureSetOf(tlog[t].orig)
           /\ tlog[t].calls = <<>>

\* C6: cancel() on a Running or Done task returns false and leaves status,
\* called, notes and dependencies (the whole program state) as they were.
C6_CancelRunningOrDone ==
    IsCall("cancel") /\ last[1].before \in {RUNNING, DONE} =>
        /\ last[1].ret = "false" /\ last[1].exc = NoExc /\ last[1].unchanged
        /\ tasks[last[1].t].status = last[1].before
C6_Witness ==
    /\ IsCall("cancel") /\ last[1].before = RUNNING
    /\ tasks[last[1].t].notes # {} /\ tasks[last[1].t].called

\* C7: cancel() on a Canceled task raises, returns nothing, and the task
\* stays Canceled.
C7_CancelTwiceRaises ==
    IsCall("cancel") /\ last[1].before = CANCELED =>
        /\ last[1].exc = CancelTwice /\ last[1].ret = ""
        /\ last[1].unchanged /\ tasks[last[1].t].status = CANCELED
C7_Witness ==
    IsCall("cancel") /\ last[1].before = CANCELED

\* The callbacks of the client that were invoked, without the sets refused.
Invocations(log) == SelectSeq(log, LAMBDA e : e.cb # RefusedName)
\* The invocations of the callbacks the client registers with addCallback.
Registered(log) == SelectSeq(log, LAMBDA e : e.cb \in CallbackNames)

\* C8: a set() on a future that is done raises and changes nothing (done stays
\* true, no callback is invoked), and a callback added after a refused set is
\* invoked, once, with the value of the first set().
C8_SetTwiceRefused ==
    /\ \A i \in 1..Len(last) :
           /\ last[i].op = "set" /\ last[i].doneBefore =>
                  last[i].exc = AlreadyDone /\ last[i].unchanged
           /\ last[i].op = "add" /\ last[i].before = "refused" =>
                  last[i].exc = NoExc /\ last[i].delivered = 1
    /\ \A f \in Futures :
           /\ Count(cbLog[f], RefusedName) > 0 => fut[f].done
           /\ \A k \in 1..Len(Invocations(cbLog[f])) :
                  Invocations(cbLog[f])[k].val = fut[f].call

\* C9: nothing registered on a pending future is invoked before set(); the
\* first set(v) invokes what was registered, each once with v, in the order of
\* registration; an addCallback later on invokes nothing but its own callback.
C9_CallbacksInOrder ==
    [][\A f \in Futures :
          /\ ~fut'[f].done => cbLog'[f] = <<>>
          /\ ~fut[f].done /\ fut'[f].done =>
                 Registered(cbLog'[f]) =
                     [i \in 1..Len(reg[f]) |-> [cb |-> reg[f][i], val |-> last'[1].v]]
          /\ fut[f].done /\ Len(last') >= 1 /\ last'[1].op = "add" =>
                 \A name \in CallbackNames \ {last'[1].cb} :
                     Count(cbLog'[f], name) = Count(cbLog[f], name)]_vars
C9_Witness ==
    /\ IsCall("set") /\ last[1].exc = NoExc /\ fut[1].done
    /\ reg[1] = <<"b", "a">>
    /\ cbLog[1] = <<[cb |-> "b", val |-> "v2"], [cb |-> "a", val |-> "v2"]>>

\* C10: addCallback(cb) on a future whose done flag is true, at any moment,
\* invokes cb once with the value stored, before it returns, and raises nothing.
C10_LateCallbackInvoked ==
    \A i \in 1..Len(last) :
        last[i].op = "add" /\ last[i].doneBefore =>
            /\ last[i].exc = NoExc /\ last[i].delivered = 1
            /\ \A k \in 1..Len(cbLog[last[i].f]) :
                   cbLog[last[i].f][k].cb = last[i].cb =>
                       cbLog[last[i].f][k].val = fut[last[i].f].call

\* The argument at the last declared parameter of the function of task t.
LastArgOf(t) ==
    IF tasks[t].func.length >= 1 /\ tasks[t].func.length <= Len(tlog[t].orig.items)
    THEN tlog[t].orig.items[tasks[t].func.length] ELSE Undefined
IsSyncTask(t) == LastArgOf(t).type # "fn" /\ tasks[t].func.mode = "sync"
IsAsyncTask(t) == LastArgOf(t).type = "fn" /\ tasks[t].func.mode \in {"later", "inline"}
\* The futures of the argument tree task t was created with that are not done.
Unresolved(t) == {f \in FutureSetOf(tlog[t].orig) : ~fut[f].done}

\* C11: after every call (run, set or any other), a task with a synchronous
\* function that was run and not canceled is Done, its function invoked once
\* and its callback called once with (null, return value), when no future of
\* its arguments is unresolved; and is Procrastinating, its function not
\* invoked and its callback not called, when one is.
C11_SyncRunSettlesInCall ==
    \A t \in TaskIds :
        IsSyncTask(t) /\ tasks[t].called /\ tasks[t].status # CANCELED =>
            IF Unresolved(t) = {}
            THEN /\ tasks[t].status = DONE
                 /\ Len(tlog[t].calls) = 1
                 /\ tlog[t].runCb = <<[err |-> "null", result |-> "ret", status |-> DONE]>>
            ELSE /\ tasks[t].status = PROCRASTINATING
                 /\ tlog[t].calls = <<>>
                 /\ tlog[t].runCb = <<>>

\* C12: for a task whose function takes a callback: the status is Running
\* while a call of the function has not called its callback yet; the original
\* callback receives the arguments the function passes and sees the status
\* Running; after each of its calls the run() callback is called, and sees Done.
C12_RunningUntilCallback ==
    /\ \A t \in TaskIds :
           IsAsyncTask(t) =>
               /\ tasks[t].pending > 0 => tasks[t].status = RUNNING
               /\ Len(tlog[t].runCb) = Len(tlog[t].userCb)
               /\ \A i \in 1..Len(tlog[t].userCb) :
                      /\ tlog[t].userCb[i].status = RUNNING
                      /\ tlog[t].runCb[i].status = DONE
    /\ IsCall("complete") =>
           /\ tlog[last[1].t].userCb[Len(tlog[last[1].t].userCb)].args = last[1].v
           /\ tasks[last[1].t].status = DONE \/ tasks[last[1].t].pending > 0

\* C13: for a task whose function takes a callback, every call of the run()
\* callback receives as result what the function returns, whether the function
\* calls its callback after it has returned or before.
C13_ResultIsReturnValue ==
    \A t \in TaskIds :
        IsAsyncTask(t) =>
            \A i \in 1..Len(tlog[t].runCb) : tlog[t].runCb[i].result = "ret"

\* The error the run() callback is to receive for task t: what the original
\* callback raises, null when it returns.
ExpectedErr(t) == IF LastArgOf(t).v = "cbthrow" THEN CbError ELSE "null"

\* C14: for a task whose function takes a callback, each call of the original
\* callback by the function is followed by one call of the run() callback,
\* with the error the original callback raised, or null when it raised
\* nothing, and the task is Done when the call returns.
C14_CallbackErrorReported ==
    /\ \A t \in TaskIds :
           IsAsyncTask(t) =>
               /\ Len(tlog[t].runCb) = Len(tlog[t].userCb)
               /\ \A i \in 1..Len(tlog[t].runCb) : tlog[t].runCb[i].err = ExpectedErr(t)
    /\ IsCall("complete") =>
           /\ last = <<last[1], RunCbRec(last[1].t, ExpectedErr(last[1].t), "ret")>>
           /\ tasks[last[1].t].status = DONE
    /\ IsCall("run") /\ ~last[1].doneBefore /\ last[1].before # CANCELED
          /\ tasks[last[1].t].func.mode = "inline" =>
           /\ last = <<last[1], RunCbRec(last[1].t, ExpectedErr(last[1].t), "undefined")>>
           /\ tasks[last[1].t].status = DONE
C14_Witness ==
    /\ IsCall("complete") /\ LastArgOf(last[1].t).v = "cbthrow"
    /\ tlog[last[1].t].runCb = <<[err |-> CbError, result |-> "ret", status |-> DONE]>>

\* The tasks in the array of the list.
ListTasks == {arrays[list.tasks][i] : i \in 1..Len(arrays[list.tasks])}

\* C15: no step changes the identifier of a task; a step that creates a task
\* (by task(), lazy() or list.lazy()) creates one, whose identifier is one more
\* than that of the task created before it; no other step moves the counter.
C15_IdsIncreaseByOne ==
    [][/\ \A t \in TaskIds : tasks'[t].id = tasks[t].id
       /\ Len(tasks') # Len(tasks) =>
              /\ Len(tasks') = Len(tasks) + 1
              /\ Len(tasks) >= 1 => tasks'[Len(tasks')].id = tasks[Len(tasks)].id + 1
       /\ Len(tasks') = Len(tasks) => counter' = counter]_vars
\* a task made by task() or lazy(), canceled, and after it a task made by list.lazy()
C15_Witness ==
    /\ Len(tasks) = 2 /\ 1 \notin ListTasks /\ 2 \in ListTasks
    /\ tasks[1].status = CANCELED /\ tasks[2].called
    /\ tasks[1].id = 0 /\ tasks[2].id = 1

RunIds == 1..Len(runs)
SeqToSet(q) == {q[i] : i \in 1..Len(q)}
\* The tasks TaskList.run number r has a result entry for (the tasks settled).
Settled(r) == {runs[r].results[i].task : i \in 1..Len(runs[r].results)}
\* The tasks of the list that were Canceled when TaskList.run number r was called.
CanceledBefore(r) == SeqToSet(runs[r].snapshot) \ SeqToSet(runs[r].toRun)

\* C16: for a TaskList.run on a list holding tasks canceled before it and
\* tasks that are not: the
\* function of such a task is not invoked, changesCallback is not called for it
\* and it has no result entry; and once every other task of the list has
\* settled, doneCallback has been called.
C16_CanceledTasksSkipped ==
    \A r \in RunIds :
        CanceledBefore(r) # {} /\ runs[r].toRun # <<>> =>
            /\ \A t \in CanceledBefore(r) :
                   /\ tlog[t].calls = <<>>
                   /\ t \notin Settled(r)
                   /\ \A i \in 1..Len(runs[r].each) : runs[r].each[i].task # t
            /\ SeqToSet(runs[r].toRun) \subseteq Settled(r) => Len(runs[r].done) >= 1

\* C17: a TaskList.run on a list that is empty or holds only Canceled tasks
\* has, when it returns, called doneCallback once, with [], and has invoked no
\* function, called no changesCallback and left every task of the list as it was.
C17_NothingToRun ==
    IsCall("list.run") /\ runs[Len(runs)].toRun = <<>> =>
        /\ last[1].exc = NoExc
        /\ runs[Len(runs)].done = <<[results |-> <<>>, each |-> <<>>, live |-> <<>>]>>
        /\ runs[Len(runs)].each = <<>>
        /\ \A t \in SeqToSet(runs[Len(runs)].snapshot) :
               tasks[t].status = CANCELED /\ tlog[t].calls = <<>>

\* No function of a task of TaskList.run number r raises.
NoneRaises(r) == \A t \in SeqToSet(runs[r].snapshot) : tasks[t].func.mode # "throw"

\* C18: doneCallback of a TaskList.run (on tasks whose functions raise
\* nothing) is called at most once, and when it is called every task of the
\* list that was not Canceled at the run has settled and the list holds no task.
C18_DoneAtMostOnceAfterAll ==
    \A r \in RunIds : NoneRaises(r) =>
        /\ Len(runs[r].done) <= 1
        /\ \A k \in 1..Len(runs[r].done) :
               /\ \A t \in SeqToSet(runs[r].toRun) :
                      \E i \in 1..Len(runs[r].done[k].results) :
                          runs[r].done[k].results[i].task = t
               /\ runs[r].done[k].live = <<>>

\* C19: (on tasks whose functions raise nothing) the list doneCallback receives holds one entry for each task the
\* TaskList.run called run() on and no other, in the order in which
\* changesCallback was called for them, each with the values changesCallback
\* received, and changesCallback had been called once for each by then.
C19_ResultsMatchSettlements ==
    \A r \in RunIds : \A k \in 1..Len(runs[r].done) :
        LET d == runs[r].done[k]
        IN  NoneRaises(r) =>
            /\ Len(d.each) = Len(d.results)
            /\ \A i \in 1..Len(d.results) :
                   d.results[i] = [task |-> d.each[i].task, err |-> d.each[i].err,
                                   result |-> d.each[i].result]
            /\ \A i, j \in 1..Len(d.results) : d.results[i].task = d.results[j].task => i = j
            /\ {d.results[i].task : i \in 1..Len(d.results)} = SeqToSet(runs[r].started)

\* C20: a TaskList.run on a list holding a task whose function raises raises
\* nothing itself, calls run() on every task of the list that is not Canceled,
\* and holds for the task whose function raised a result entry with the error.
C20_FunctionErrorReported ==
    IsCall("list.run") =>
        /\ last[1].exc = NoExc
        /\ runs[Len(runs)].started = runs[Len(runs)].toRun
        /\ \A t \in SeqToSet(runs[Len(runs)].started) :
               tasks[t].func.mode = "throw" /\ Len(tlog[t].calls) > 0 =>
                   \E i \in 1..Len(runs[Len(runs)].results) :
                       /\ runs[Len(runs)].results[i].task = t
                       /\ runs[Len(runs)].results[i].err = FuncError

\* The tasks a sequence of result entries is about, in order.
TasksOf(results) == [i \in 1..Len(results) |-> results[i].task]
\* q is p with elements added at its end.
IsPrefix(p, q) == Len(p) <= Len(q) /\ SubSeq(q, 1, Len(p)) = p

C22_RunWorksOnSnapshot ==
    \A r \in RunIds :
        NoneRaises(r) /\ CanceledBefore(r) = {} /\ runs[r].toRun # <<>> =>
            /\ SeqToSet(runs[r].started) \subseteq SeqToSet(runs[r].snapshot)
            /\ SeqToSet(runs[r].toRun) \subseteq Settled(r) => Len(runs[r].done) >= 1

\* What info().notes of the task t reads as.
DeepNotes(t) == Deep(heap, tasks[t].notes)
\* The object at address a with its arrays.
Reach(a) == {a} \cup ArraysOf(a)

\* C23: changing an object given to note(), an object returned by info(), or
\* an array in one of them, changes neither the notes of any task nor any
\* object info() returned other than the one changed; info() returns the notes
\* of the task, and no info() or note() changes what an earlier info() returned.
C23_NotesAreCopies ==
    [][Len(last') >= 1 =>
        /\ last'[1].op = "mutate" =>
               /\ \A t \in TaskIds : DeepNotes(t)' = DeepNotes(t)
               /\ \A i \in 1..Len(client.infos) :
                      last'[1].f \notin Reach(client.infos[i].notes) =>
                          Deep(heap, heap[client.infos[i].notes].props)'
                              = Deep(heap, heap[client.infos[i].notes].props)
        /\ last'[1].op = "info" =>
               /\ Deep(heap', heap'[last'[1].f].props) = DeepNotes(last'[1].t)
               /\ \A t \in TaskIds : DeepNotes(t)' = DeepNotes(t)
        /\ last'[1].op \in {"info", "note"} =>
               \A i \in 1..Len(client.infos) :
                   Deep(heap, heap[client.infos[i].notes].props)'
                       = Deep(heap, heap[client.infos[i].notes].props)]_vars
\* the client has changed the array of an object info() returned, of a task
\* whose notes hold an array
C23_Witness ==
    /\ IsCall("mutate")
    /\ \E i \in 1..Len(client.infos) :
           /\ last[1].f \in ArraysOf(client.infos[i].notes)
           /\ HasKey(tasks[client.infos[i].t].notes, "args")

\* The notes given that JSON can carry.
Carried(text) == {n \in text : n[2].kind # "undefined"}
InOrder(a) == \A i, j \in 1..Len(a) : i < j => a[i] < a[j]
\* The arrays the list and the calls of TaskList.run work on.
ListArrays == {list.tasks} \cup {runs[r].tasks : r \in RunIds}

\* C25: asArray() returns the tasks of the list in the order they were added,
\* in an array that is not the list's and leaves the list as it is; removing
\* a task from an array it returned changes neither the list nor the array of
\* any TaskList.run nor another array returned, and a later asArray() and a
\* later TaskList.run get the tasks of the list.
C25_AsArrayIsACopy ==
    [][Len(last') >= 1 =>
        /\ last'[1].op = "list.asArray" =>
               /\ arrays'[last'[1].f] = arrays[list.tasks]
               /\ InOrder(arrays'[last'[1].f])
               /\ last'[1].f \notin ListArrays
               /\ \A a \in 1..Len(arrays) : arrays'[a] = arrays[a]
        /\ last'[1].op = "pop" =>
               \A a \in 1..Len(arrays) : a # last'[1].f => arrays'[a] = arrays[a]
        /\ last'[1].op = "pop" => last'[1].f \notin ListArrays
        /\ last'[1].op = "list.run" => runs'[Len(runs')].snapshot = arrays[list.tasks]]_vars
\* the client has removed a task from an array asArray() returned, the list
\* holding two tasks, one of them in flight
C25_Witness ==
    /\ IsCall("pop")
    /\ Len(arrays[list.tasks]) = 2
    /\ Len(arrays[last[1].f]) = 1
    /\ \E t \in ListTasks : tasks[t].status = RUNNING

\* C26: clear() leaves the list without tasks and changes no task, no future
\* and no array a TaskList.run works on; a TaskList.run on a list cleared and
\* not added to since invokes no function, changes no task and calls
\* doneCallback, once, with an empty list.
C26_ClearEmptiesTheList ==
    [][Len(last') >= 1 =>
        /\ last'[1].op = "list.clear" =>
               /\ arrays'[list'.tasks] = <<>>
               /\ tasks' = tasks /\ fut' = fut /\ tlog' = tlog /\ runs' = runs
               /\ \A a \in 1..Len(arrays) : arrays'[a] = arrays[a]
        /\ last'[1].op = "list.run" /\ list.tasks # 1 /\ arrays[list.tasks] = <<>> =>
               /\ tasks' = tasks /\ tlog' = tlog
               /\ last'[1].exc = NoExc
               /\ runs'[Len(runs')].started = <<>>
               /\ Len(runs'[Len(runs')].done) = 1
               /\ runs'[Len(runs')].done[1].results = <<>>]_vars
\* a TaskList.run on a list cleared when it held two tasks, one Procrastinating
\* and one in flight
C26_Witness ==
    /\ IsCall("list.run") /\ list.tasks # 1
    /\ runs[Len(runs)].snapshot = <<>>
    /\ Len(tasks) = 2
    /\ tasks[1].status = RUNNING /\ tasks[2].status = PROCRASTINATING

\* C27: a call of a function made by list.lazy creates one task, Procrastinating,
\* never run, holding the arguments of the call, and puts it at the end of the
\* list; it invokes no function and changes no other task; and the function of
\* a task is invoked only once run() has been called on the task.
C27_ListLazyOnlyCreates ==
    [][/\ Len(last') >= 1 /\ last'[1].op = "list.lazy" =>
              LET t == Len(tasks) + 1
              IN  /\ Len(tasks') = t
                  /\ tasks'[t].status = PROCRASTINATING /\ ~tasks'[t].called
                  /\ tasks'[t].args = tlog'[t].orig /\ tlog'[t].calls = <<>>
                  /\ arrays'[list.tasks] = Append(arrays[list.tasks], t)
                  /\ \A u \in TaskIds : tasks'[u] = tasks[u] /\ tlog'[u] = tlog[u]
                  /\ fut' = fut /\ runs' = runs
       /\ \A u \in TaskIds : Len(tlog'[u].calls) > Len(tlog[u].calls) => tasks'[u].called]_vars
\* a task put in the list after a task of the list in flight
C27_Witness ==
    /\ IsCall("list.lazy") /\ last[1].t = 2
    /\ arrays[list.tasks] = <<1, 2>>
    /\ tasks[1].status = RUNNING /\ tlog[1].calls # <<>>
    /\ tasks[2].status = PROCRASTINATING

\* C28: a task that is Running or Done has had run() called and waits for no future.
C28_RunningOrDoneWaitsForNothing ==
    \A t \in TaskIds :
        tasks[t].status \in {RUNNING, DONE} => tasks[t].called /\ tasks[t].futures = <<>>

\* The callbacks on the future f that searchFutures registered for the task t.
TaskCallbacksOn(f, t) ==
    {i \in 1..Len(fut[f].callback.cbs) :
        fut[f].callback.cbs[i].kind = "task" /\ fut[f].callback.cbs[i].task = t}

\* C29: the futures of a task's arguments are found by run(), not at creation:
\* while run() has not been called on a task it waits for no future, no future
\* carries a callback of it and its arguments are those it was created with,
\* whatever futures were set meanwhile; when an accepted run() returns, the
\* task waits for exactly the futures of its arguments that are unresolved and
\* each of them carries its callback.
C29_FuturesFoundByRun ==
    \A t \in TaskIds :
        /\ ~tasks[t].called =>
               /\ tasks[t].futures = <<>>
               /\ \A f \in Futures : TaskCallbacksOn(f, t) = {}
               /\ tasks[t].args = tlog[t].orig
        /\ (/\ IsCall("run") /\ last[1].t = t /\ last[1].exc = NoExc
            /\ ~last[1].doneBefore /\ last[1].before # CANCELED) =>
               /\ SeqToSet(tasks[t].futures) = Unresolved(t)
               /\ \A f \in Unresolved(t) : TaskCallbacksOn(f, t) # {}
\* a task not run yet whose arguments hold a future set after its creation
\* and a future not set
C29_Witness ==
    \E t \in TaskIds :
        /\ ~tasks[t].called /\ tasks[t].status = PROCRASTINATING
        /\ Unresolved(t) # {}
        /\ \E f \in FutureSetOf(tlog[t].orig) : fut[f].done
\* C29 as stated: from its creation on a task that was not run waits for the
\* unresolved futures of its arguments and each of them carries its callback
C29_FuturesFoundAtCreation ==
    \A t \in TaskIds :
        ~tasks[t].called /\ tasks[t].status = PROCRASTINATING =>
            /\ SeqToSet(tasks[t].futures) = Unresolved(t)
            /\ \A f \in Unresolved(t) : TaskCallbacksOn(f, t) # {}

RunCallbacksOf(calls) ==
    LET cbs == SelectSeq(calls, LAMBDA c : c.op = "runcb")
    IN  [i \in 1..Len(cbs) |-> cbs[i].t]

\* C31: a set(v) on a pending future f invokes, within the call, the function
\* of every task that was run, is Procrastinating and has f as the only future
\* of its arguments, once each, and no other function; the synchronous ones
\* among them return (their run callbacks are called) in the order in which
\* run() was called on the tasks.
C31_SetInvokesWaitersInRunOrder ==
    [][Len(last') >= 1 /\ last'[1].op = "set" /\ last'[1].exc = NoExc =>
           LET f == last'[1].f
               waiting == SelectSeq(client.ran, LAMBDA t :
                              /\ tasks[t].status = PROCRASTINATING
                              /\ FutureSetOf(tlog[t].orig) = {f})
           IN  /\ \A t \in TaskIds :
                      Len(tlog'[t].calls) = Len(tlog[t].calls)
                          + (IF t \in SeqToSet(waiting) THEN 1 ELSE 0)
               /\ RunCallbacksOf(last') = SelectSeq(waiting, LAMBDA t : tasks[t].func.mode = "sync")]_vars
\* two synchronous tasks, the second created run first, invoked by one set
C31_Witness ==
    /\ IsCall("set") /\ client.ran = <<2, 1>>
    /\ RunCallbacksOf(last) = <<2, 1>>
    /\ tasks[1].status = DONE /\ tasks[2].status = DONE

====
